---- MODULE Spec2Model ----
(***************************************************************************)
(* Model of exporter/awsxrayexporter/internal/translator/cause.go:         *)
(* makeCause, parseException and the five stack-trace grammars.            *)
(*                                                                         *)
(* Go strings are TLA+ strings; Go indices are kept 0-based, so that       *)
(* s[lo:hi] is Slice(s, lo, hi).  A slice expression whose bounds are out  *)
(* of range is a run-time panic in Go: every such expression of the source *)
(* is guarded here by SliceOK and a failed guard ends the call with        *)
(* panic = TRUE.                                                           *)
(***************************************************************************)
EXTENDS Integers, Sequences, FiniteSets, TLC

VARIABLES input, output, pc, segmentIDs

vars == <<input, output, pc, segmentIDs>>

(***************************************************************************)
(* Bounds of the model.                                                    *)
(***************************************************************************)
MaxBlocks == 3
MaxEvents == 2

(***************************************************************************)
(* Go string primitives used by cause.go.                                  *)
(***************************************************************************)
\* s[i], 0-based
At(s, i) == SubSeq(s, i + 1, i + 1)

\* s[lo:hi] is legal in Go iff 0 <= lo <= hi <= len(s)
SliceOK(s, lo, hi) == 0 <= lo /\ lo <= hi /\ hi <= Len(s)

Slice(s, lo, hi) == SubSeq(s, lo + 1, hi)

SliceFrom(s, lo) == SubSeq(s, lo + 1, Len(s))

HasPrefix(s, p) == Len(s) >= Len(p) /\ SubSeq(s, 1, Len(p)) = p

\* strings.Index: the first i with s[i:i+len(sub)] = sub, else -1
Index(s, sub) ==
  LET last == Len(s) - Len(sub)
      at(i) == SubSeq(s, i + 1, i + Len(sub)) = sub
  IN IF \E i \in 0..last : at(i)
     THEN CHOOSE i \in 0..last : at(i) /\ \A j \in 0..(i - 1) : ~at(j)
     ELSE -1

IndexByte(s, b) == Index(s, b)

\* strings.LastIndexByte: the last i with s[i] = b, else -1
LastIndexByte(s, b) ==
  LET at(i) == SubSeq(s, i + 1, i + 1) = b
  IN IF \E i \in 0..(Len(s) - 1) : at(i)
     THEN CHOOSE i \in 0..(Len(s) - 1) : at(i) /\ \A j \in (i + 1)..(Len(s) - 1) : ~at(j)
     ELSE -1

Contains(s, sub) == Index(s, sub) >= 0

RECURSIVE Split(_, _)
Split(s, sep) ==
  LET i == Index(s, sep)
  IN IF i < 0 THEN <<s>>
     ELSE <<Slice(s, 0, i)>> \o Split(SliceFrom(s, i + Len(sep)), sep)

RECURSIVE Join(_, _)
Join(elems, sep) ==
  IF Len(elems) = 0 THEN ""
  ELSE IF Len(elems) = 1 THEN elems[1]
  ELSE elems[1] \o sep \o Join(Tail(elems), sep)

Digits == "0123456789"

IsDigit(c) == \E i \in 1..10 : SubSeq(Digits, i, i) = c

DigitVal(c) == (CHOOSE i \in 1..10 : SubSeq(Digits, i, i) = c) - 1

RECURSIVE DecimalValue(_, _)
DecimalValue(s, acc) ==
  IF Len(s) = 0 THEN acc
  ELSE DecimalValue(Tail(s), 10 * acc + DigitVal(Head(s)))

\* strconv.Atoi with the error dropped ("n, _ = strconv.Atoi(s)"): 0 on a
\* syntax error.  Values stay far below the int range within the bounds.
Atoi(s) ==
  LET signed == Len(s) > 0 /\ (Head(s) = "-" \/ Head(s) = "+")
      body   == IF signed THEN Tail(s) ELSE s
  IN IF Len(body) = 0 \/ \E i \in 0..(Len(body) - 1) : ~IsDigit(At(body, i))
     THEN 0
     ELSE IF signed /\ Head(s) = "-" THEN 0 - DecimalValue(body, 0)
     ELSE DecimalValue(body, 0)

\* textproto.Reader.ReadLine over the whole text: the lines it returns before
\* it reports io.EOF.  A line ends at "\n" (a "\r" before it is dropped too);
\* unterminated text at the end is a last line; nothing after the final "\n"
\* is no line.
ReadLines(text) ==
  LET segs == Split(text, "\n")
      n    == Len(segs)
      strip(l) == IF Len(l) > 0 /\ At(l, Len(l) - 1) = "\r"
                  THEN Slice(l, 0, Len(l) - 1) ELSE l
      body == [i \in 1..(n - 1) |-> strip(segs[i])]
  IN IF segs[n] = "" THEN body ELSE body \o <<segs[n]>>

(***************************************************************************)
(* awsxray.Exception, awsxray.StackFrame and the slice that holds them.    *)
(***************************************************************************)
NoCause == 0

StackFrame(path, label, line) == [Path |-> path, Label |-> label, Line |-> line]

Exception(id, type, message) ==
  [ID |-> id, Type |-> type, Message |-> message, Stack |-> <<>>, Cause |-> NoCause]

\* newSegmentID().HexString(): the n-th identifier handed out.
NewSegmentID(n) == n + 1

(* A []awsxray.Exception together with the *awsxray.Exception the parsers  *)
(* keep: arrays are the backing arrays allocated so far, cur the one the   *)
(* slice `exceptions` uses now, cap its capacity, (ptrA, ptrI) the array   *)
(* and index `exception` points into, next the identifiers handed out.     *)
MakeSlice(first, ids) ==
  [arrays |-> << <<first>> >>, cur |-> 1, cap |-> 1,
   ptrA |-> 1, ptrI |-> 1, next |-> ids, panic |-> FALSE]

Exceptions(sl) == sl.arrays[sl.cur]

\* exceptions = append(exceptions, e): in place while len < cap, otherwise a
\* new backing array of twice the capacity with the elements copied.
AppendException(sl, e) ==
  IF Len(sl.arrays[sl.cur]) < sl.cap
  THEN [sl EXCEPT !.arrays[sl.cur] = Append(@, e)]
  ELSE [sl EXCEPT !.arrays = Append(@, Append(sl.arrays[sl.cur], e)),
                  !.cur = Len(sl.arrays) + 1,
                  !.cap = 2 * sl.cap]

\* Variant: the frame put first in the stack.
PrependFrame(sl, frame) ==
  [sl EXCEPT !.arrays[sl.ptrA][sl.ptrI].Stack = <<frame>> \o @]

\* exception.Stack = append(exception.Stack, stack)
AppendFrame(sl, frame) ==
  [sl EXCEPT !.arrays[sl.ptrA][sl.ptrI].Stack = Append(@, frame)]

\* Variant: only `exception.Cause = newException.ID`, the link written
\* through the pointer taken before the append.
LinkCauseThroughPointer(sl) ==
  LET n  == Len(sl.arrays[sl.cur])
      id == sl.arrays[sl.cur][n].ID
      s2 == [sl EXCEPT !.arrays[sl.ptrA][sl.ptrI].Cause = id]
  IN [s2 EXCEPT !.ptrA = s2.cur, !.ptrI = n]

\* newException := &exceptions[len(exceptions)-1]
\* exceptions[len(exceptions)-2].Cause = newException.ID
\* exception.Cause = newException.ID
\* exception = newException
LinkCause(sl) ==
  LET n  == Len(sl.arrays[sl.cur])
      id == sl.arrays[sl.cur][n].ID
      s1 == [sl EXCEPT !.arrays[sl.cur][n - 1].Cause = id]
      s2 == [s1 EXCEPT !.arrays[s1.ptrA][s1.ptrI].Cause = id]
  IN [s2 EXCEPT !.ptrA = s2.cur, !.ptrI = n]

Panic(sl) == [sl EXCEPT !.panic = TRUE]

(***************************************************************************)
(* fillJavaStacktrace (java, php).                                         *)
(***************************************************************************)
\* strings.HasPrefix(line, "\tat ") && strings.IndexByte(line, '(') >= 0 &&
\* line[len(line)-1] == ')'
JavaIsFrame(line) ==
  /\ HasPrefix(line, "\tat ")
  /\ IndexByte(line, "(") >= 0
  /\ At(line, Len(line) - 1) = ")"

\* The frame of a "\tat label(path:line)" line.
JavaFrame(line) ==
  LET parenIdx == IndexByte(line, "(")
      label0   == Slice(line, Len("\tat "), parenIdx)
      slashIdx == IndexByte(label0, "/")
      label    == IF slashIdx >= 0 THEN SliceFrom(label0, slashIdx + 1) ELSE label0
      path0    == Slice(line, parenIdx + 1, Len(line) - 1)
      colonIdx == IndexByte(path0, ":")
  IN IF colonIdx >= 0
     THEN StackFrame(Slice(path0, 0, colonIdx), label,
                     Atoi(SliceFrom(path0, colonIdx + 1)))
     ELSE StackFrame(path0, label, 0)

\* The index of the first line after i that JavaIsFrame accepts, or
\* Len(lines) + 1 when the reader reaches io.EOF first.
RECURSIVE JavaPeek(_, _)
JavaPeek(lines, i) ==
  IF i > Len(lines) THEN i
  ELSE IF JavaIsFrame(lines[i]) THEN i
  ELSE JavaPeek(lines, i + 1)

\* causeMessage += line, for the lines i..j-1
RECURSIVE ConcatLines(_, _, _)
ConcatLines(lines, i, j) ==
  IF i >= j THEN "" ELSE lines[i] \o ConcatLines(lines, i + 1, j)

\* The "Caused by: " branch: the slice after the new record is appended and
\* linked.
JavaCausedBy(lines, i, sl) ==
  LET causeType0 == SliceFrom(lines[i], Len("Caused by: "))
      colonIdx   == IndexByte(causeType0, ":")
      j          == JavaPeek(lines, i + 1)
      causeType  == IF colonIdx >= 0 THEN Slice(causeType0, 0, colonIdx) ELSE causeType0
      msg0       == IF colonIdx >= 0 THEN SliceFrom(causeType0, colonIdx + 2) ELSE ""
      id         == NewSegmentID(sl.next)
      e          == Exception(id, causeType, msg0 \o ConcatLines(lines, i + 1, j))
  IN LinkCause(AppendException([sl EXCEPT !.next = id], e))

\* The for loop of fillJavaStacktrace with `line` = lines[i]; i = Len(lines)+1
\* stands for the empty line left by a ReadLine that failed while peeking.
RECURSIVE JavaLoop(_, _, _)
JavaLoop(lines, i, sl) ==
  LET line == IF i <= Len(lines) THEN lines[i] ELSE ""
      next(s) == IF i + 1 > Len(lines) THEN s ELSE JavaLoop(lines, i + 1, s)
  IN IF HasPrefix(line, "\tat ")
     THEN IF IndexByte(line, "(") >= 0 /\ At(line, Len(line) - 1) = ")"
          THEN next(AppendFrame(sl, JavaFrame(line)))
          ELSE next(sl)
     ELSE IF HasPrefix(line, "Caused by: ")
     THEN LET causeType0 == SliceFrom(line, Len("Caused by: "))
              colonIdx   == IndexByte(causeType0, ":")
          IN IF colonIdx >= 0 /\ ~SliceOK(causeType0, colonIdx + 2, Len(causeType0))
             THEN Panic(sl)
             ELSE JavaLoop(lines, JavaPeek(lines, i + 1), JavaCausedBy(lines, i, sl))
     ELSE next(sl)

fillJavaStacktrace(stacktrace, sl) ==
  LET lines == ReadLines(stacktrace)
  IN IF Len(lines) < 2 THEN sl ELSE JavaLoop(lines, 2, sl)

(***************************************************************************)
(* fillPythonStacktrace.                                                   *)
(***************************************************************************)
DuringHandling == "During handling of the above exception, another exception occurred:"

\* lines[k] of the Go slice (0-based) `lines`
Line0(lines, k) == lines[k + 1]

\* for { if nextFileLineIdx < 0 {return}; if HasPrefix(lines[idx], "  File ") {break}; idx-- }
\* -1 when the scan runs off the front.
RECURSIVE PythonNextFileLineIdx(_, _)
PythonNextFileLineIdx(lines, idx) ==
  IF idx < 0 THEN -1
  ELSE IF HasPrefix(Line0(lines, idx), "  File ") THEN idx
  ELSE PythonNextFileLineIdx(lines, idx - 1)

\* strings.Join(lines[lo:hi], "\n")
JoinRange(lines, lo, hi) == Join(SubSeq(lines, lo + 1, hi), "\n")

\* The frame of a "  File ..." line with three comma separated parts.
PythonFrame(parts) ==
  LET filePart   == parts[1]
      file       == Slice(filePart, 8, Len(filePart) - 1)
      lineNumber == IF HasPrefix(parts[2], " line ")
                    THEN Atoi(SliceFrom(parts[2], 6)) ELSE 0
      label      == IF HasPrefix(parts[3], " in ")
                    THEN SliceFrom(parts[3], 4) ELSE ""
  IN StackFrame(file, label, lineNumber)

\* Variant: the message taken from right after the colon.
PythonCauseNoSkip(message, colonIdx, id) ==
  Exception(id, Slice(message, 0, colonIdx), SliceFrom(message, colonIdx + 1))

\* causeType := message[0:colonIdx]; causeMessage := message[colonIdx+2:]
PythonCause(message, colonIdx, id) ==
  Exception(id, Slice(message, 0, colonIdx), SliceFrom(message, colonIdx + 2))

\* The for loop of fillPythonStacktrace with `line` = lines[lineIdx].
RECURSIVE PythonLoop(_, _, _)
PythonLoop(lines, lineIdx, sl) ==
  LET line == Line0(lines, lineIdx)
      next(s) == IF lineIdx - 1 < 0 THEN s ELSE PythonLoop(lines, lineIdx - 1, s)
  IN IF HasPrefix(line, "  File ")
     THEN LET parts == Split(line, ",")
          IN IF Len(parts) = 3
             THEN IF ~SliceOK(parts[1], 8, Len(parts[1]) - 1)
                  THEN Panic(sl)
                  ELSE next(AppendFrame(sl, PythonFrame(parts)))
             ELSE next(sl)
     ELSE IF HasPrefix(line, DuringHandling)
     THEN LET nextFileLineIdx == PythonNextFileLineIdx(lines, lineIdx - 1)
          IN IF nextFileLineIdx < 0 THEN sl
             ELSE IF ~(nextFileLineIdx + 2 <= lineIdx - 1) THEN Panic(sl)
             ELSE LET message  == JoinRange(lines, nextFileLineIdx + 2, lineIdx - 1)
                      colonIdx == IndexByte(message, ":")
                      id       == NewSegmentID(sl.next)
                  IN IF colonIdx < 0 THEN sl
                     ELSE IF ~SliceOK(message, colonIdx + 2, Len(message))
                     THEN Panic(sl)
                     ELSE PythonLoop(lines, nextFileLineIdx,
                            LinkCause(AppendException([sl EXCEPT !.next = id],
                              PythonCause(message, colonIdx, id))))
     ELSE next(sl)

fillPythonStacktrace(stacktrace, sl) ==
  LET lines   == Split(stacktrace, "\n")
      lineIdx == Len(lines) - 2
  IN IF lineIdx < 0 THEN sl ELSE PythonLoop(lines, lineIdx, sl)

(***************************************************************************)
(* fillJavaScriptStacktrace.                                               *)
(***************************************************************************)
\* indexOf(str, c, pos)
indexOf(str, c, pos) ==
  IF pos < 0 THEN -1
  ELSE LET index == IndexByte(SliceFrom(str, pos + 1), c)
       IN IF index > -1 THEN index + pos + 1 ELSE -1

\* The (path, label, line) read from a "    at " line.
JavaScriptFrame(line) ==
  LET parenIdx == IndexByte(line, "(")
      closed   == parenIdx >= 0 /\ At(line, Len(line) - 1) = ")"
      label    == IF closed THEN Slice(line, 7, parenIdx) ELSE ""
      path0    == IF closed THEN Slice(line, parenIdx + 1, Len(line) - 1)
                  ELSE IF parenIdx < 0 THEN SliceFrom(line, 7) ELSE ""
      colonFirstIdx  == IndexByte(path0, ":")
      colonSecondIdx == indexOf(path0, ":", colonFirstIdx)
  IN IF colonFirstIdx >= 0 /\ colonSecondIdx >= 0 /\ colonFirstIdx # colonSecondIdx
     THEN StackFrame(Slice(path0, 0, colonFirstIdx), label,
                     Atoi(Slice(path0, colonFirstIdx + 1, colonSecondIdx)))
     ELSE IF colonFirstIdx < 0 /\ Contains(path0, "native")
     THEN StackFrame("native", label, 0)
     ELSE StackFrame(path0, label, 0)

RECURSIVE JavaScriptLoop(_, _, _)
JavaScriptLoop(lines, i, sl) ==
  LET line == lines[i]
      next(s) == IF i + 1 > Len(lines) THEN s ELSE JavaScriptLoop(lines, i + 1, s)
  IN IF HasPrefix(line, "    at ")
     THEN LET f == JavaScriptFrame(line)
          IN IF f.Path # "" \/ f.Label # "" \/ f.Line # 0
             THEN next(AppendFrame(sl, f))
             ELSE next(sl)
     ELSE next(sl)

fillJavaScriptStacktrace(stacktrace, sl) ==
  LET lines == ReadLines(stacktrace)
  IN IF Len(lines) < 2 THEN sl ELSE JavaScriptLoop(lines, 2, sl)

(***************************************************************************)
(* fillDotnetStacktrace.                                                   *)
(***************************************************************************)
\* The frame of a "\tat label in path:line N" line; parts = Split(line, " in ").
DotnetFrame(parts) ==
  LET label    == SliceFrom(parts[1], Len("\tat "))
      path0    == parts[2]
      colonIdx == LastIndexByte(parts[2], ":")
      lineStr0 == SliceFrom(path0, colonIdx + 1)
      lineStr  == IF HasPrefix(lineStr0, "line") THEN SliceFrom(lineStr0, 5) ELSE lineStr0
  IN IF colonIdx >= 0
     THEN StackFrame(Slice(path0, 0, colonIdx), label, Atoi(lineStr))
     ELSE StackFrame(path0, label, 0)

\* Whether a slice expression of the " in " branch is out of range.
DotnetFramePanics(parts) ==
  LET colonIdx == LastIndexByte(parts[2], ":")
      lineStr0 == SliceFrom(parts[2], colonIdx + 1)
  IN \/ ~SliceOK(parts[1], Len("\tat "), Len(parts[1]))
     \/ /\ colonIdx >= 0
        /\ HasPrefix(lineStr0, "line")
        /\ ~SliceOK(lineStr0, 5, Len(lineStr0))

RECURSIVE DotnetLoop(_, _, _)
DotnetLoop(lines, i, sl) ==
  LET line == lines[i]
      next(s) == IF i + 1 > Len(lines) THEN s ELSE DotnetLoop(lines, i + 1, s)
  IN IF HasPrefix(line, "\tat ")
     THEN IF Index(line, " in ") >= 0
          THEN LET parts == Split(line, " in ")
               IN IF DotnetFramePanics(parts) THEN Panic(sl)
                  ELSE next(AppendFrame(sl, DotnetFrame(parts)))
          ELSE LET idx == LastIndexByte(line, ")")
               IN IF idx >= 0
                  THEN next(AppendFrame(sl,
                         StackFrame("", Slice(line, Len("\tat "), idx + 1), 0)))
                  ELSE next(sl)
     ELSE next(sl)

fillDotnetStacktrace(stacktrace, sl) ==
  LET lines == ReadLines(stacktrace)
  IN IF Len(lines) < 2 THEN sl ELSE DotnetLoop(lines, 2, sl)

(***************************************************************************)
(* fillGoStacktrace.                                                       *)
(***************************************************************************)
WordChars == "abcdefghijklmnopqrstuvwxyzABCDEFGHIJKLMNOPQRSTUVWXYZ0123456789_"

\* \w of the regexp package
IsWordChar(c) == \E i \in 1..Len(WordChars) : SubSeq(WordChars, i, i) = c

\* \s of the regexp package
IsSpace(c) == c \in {" ", "\t", "\n", "\r", "\f"}

\* re.Match with re = `^goroutine.*\brunning\b.*:$`
MatchGoroutineHeader(line) ==
  /\ HasPrefix(line, "goroutine")
  /\ \E k \in Len("goroutine")..(Len(line) - Len("running") - 1) :
       /\ Slice(line, k, k + Len("running")) = "running"
       /\ ~IsWordChar(At(line, k - 1))
       /\ ~IsWordChar(At(line, k + Len("running")))
  /\ At(line, Len(line) - 1) = ":"

IsPathChar(c) == c # ":" /\ ~IsSpace(c)

\* The end of the run of [^:\s] characters that starts at i.
RECURSIVE PathRunEnd(_, _)
PathRunEnd(line, i) ==
  IF i < Len(line) /\ IsPathChar(At(line, i)) THEN PathRunEnd(line, i + 1) ELSE i

\* The end of the run of \d characters that starts at i.
RECURSIVE DigitRunEnd(_, _)
DigitRunEnd(line, i) ==
  IF i < Len(line) /\ IsDigit(At(line, i)) THEN DigitRunEnd(line, i + 1) ELSE i

\* Whether `([^:\s]+)\:(\d+)` matches at i: the run of [^:\s] is greedy and
\* holds no colon, so it must end right before a colon that a digit follows.
PathLineAt(line, i) ==
  LET j == PathRunEnd(line, i)
  IN j > i /\ j + 1 < Len(line) /\ At(line, j) = ":" /\ IsDigit(At(line, j + 1))

\* The leftmost i >= from where the pattern matches, else -1
RECURSIVE PathLineStart(_, _)
PathLineStart(line, from) ==
  IF from >= Len(line) THEN -1
  ELSE IF PathLineAt(line, from) THEN from
  ELSE PathLineStart(line, from + 1)

\* plnre.FindStringSubmatch with plnre = `([^:\s]+)\:(\d+)`: the leftmost
\* match as <<whole, path, digits>>, or <<>> when there is none.
FindPathLine(line) ==
  LET i == PathLineStart(line, 0)
      j == PathRunEnd(line, i)
      e == DigitRunEnd(line, j + 1)
  IN IF i < 0 THEN <<>>
     ELSE <<Slice(line, i, e), Slice(line, i, j), Slice(line, j + 1, e)>>

\* r.ReadLine() with the error dropped: the line at p, "" after the end.
LineOrEmpty(lines, p) == IF p <= Len(lines) THEN lines[p] ELSE ""

\* The for loop of fillGoStacktrace with `line` = the line at p; path and
\* lineNumber are the function's variables, kept across iterations.
RECURSIVE GoLoop(_, _, _, _, _)
GoLoop(lines, p, path, lineNumber, sl) ==
  LET match   == MatchGoroutineHeader(LineOrEmpty(lines, p))
      q       == IF match /\ p <= Len(lines) THEN p + 1 ELSE p
      label   == LineOrEmpty(lines, q)
      r       == IF q <= Len(lines) THEN q + 1 ELSE q
      matches == FindPathLine(LineOrEmpty(lines, r))
      path1   == IF Len(matches) = 3 THEN matches[2] ELSE path
      number1 == IF Len(matches) = 3 THEN Atoi(matches[3]) ELSE lineNumber
      sl1     == AppendFrame(sl, StackFrame(path1, label, number1))
      t       == IF r <= Len(lines) THEN r + 1 ELSE r
  IN IF t > Len(lines) THEN sl1 ELSE GoLoop(lines, t, path1, number1, sl1)

fillGoStacktrace(stacktrace, sl) ==
  LET lines == ReadLines(stacktrace)
  IN IF Len(lines) < 2 THEN sl ELSE GoLoop(lines, 2, "", 0, sl)

(***************************************************************************)
(* parseException.                                                         *)
(***************************************************************************)
\* The slice parseException returns (with the state of the identifier
\* generator and whether the call panicked).
parseException(exceptionType, message, stacktrace, language, ids) ==
  LET id == NewSegmentID(ids)
      sl == MakeSlice(Exception(id, exceptionType, message), id)
  IN IF stacktrace = "" THEN sl
     ELSE CASE language = "java"       -> fillJavaStacktrace(stacktrace, sl)
            [] language = "python"     -> fillPythonStacktrace(stacktrace, sl)
            [] language = "javascript" -> fillJavaScriptStacktrace(stacktrace, sl)
            [] language = "dotnet"     -> fillDotnetStacktrace(stacktrace, sl)
            [] language = "php"        -> fillJavaStacktrace(stacktrace, sl)
            [] language = "go"         -> fillGoStacktrace(stacktrace, sl)
            [] OTHER                   -> sl

(***************************************************************************)
(* makeCause.                                                              *)
(***************************************************************************)
ExceptionEventName == "exception"

StatusCodeError == "STATUS_CODE_ERROR"

\* pdata.AttributeValue and its StringVal(), IntVal(): the zero value when
\* the attribute holds another type.
StringValue(s) == [Type |-> "STRING", Str |-> s, Int |-> 0]

IntValue(n) == [Type |-> "INT", Str |-> "", Int |-> n]

StringVal(v) == IF v.Type = "STRING" THEN v.Str ELSE ""

IntVal(v) == IF v.Type = "INT" THEN v.Int ELSE 0

\* An attribute map is a function from its keys; m.Get(key) is (m[key], ok).
Has(m, key) == key \in DOMAIN m

\* val.StringVal() of m.Get(key), "" when absent
StringAttr(m, key) == IF Has(m, key) THEN StringVal(m[key]) ELSE ""

CauseNil == [Type |-> "nil", Exceptions |-> <<>>]

CauseObject(exceptions) == [Type |-> "CauseTypeObject", Exceptions |-> exceptions]

\* for i := 0; i < span.Events().Len(); i++ { if event.Name() == ExceptionEventName {...} }
hasExceptions(events) ==
  \E i \in 1..Len(events) : events[i].Name = ExceptionEventName

RECURSIVE ParseEvents(_, _, _, _, _)
\* exceptions = append(exceptions, parsed...), then the rest of the loop; a
\* failed parse ends the call.
AppendParsed(events, i, language, acc, parsed) ==
  IF parsed.panic
  THEN [panic |-> TRUE, exceptions |-> acc, next |-> parsed.next]
  ELSE ParseEvents(events, i + 1, language, acc \o Exceptions(parsed), parsed.next)

\* exceptionType, message, stacktrace read from the event's attributes (""
\* when absent) and parsed.
ParseEvent(attrs, language, ids) ==
  parseException(StringAttr(attrs, "exception.type"),
                 StringAttr(attrs, "exception.message"),
                 StringAttr(attrs, "exception.stacktrace"),
                 language, ids)

\* Variant: every event parsed, whatever its name.
ParseEveryEvent(events, i, language, acc, ids) ==
  IF i > Len(events) THEN [panic |-> FALSE, exceptions |-> acc, next |-> ids]
  ELSE AppendParsed(events, i, language, acc,
                    ParseEvent(events[i].Attributes, language, ids))

\* The second loop over the events, from event i on: acc is `exceptions`,
\* ids the identifiers handed out so far.
ParseEvents(events, i, language, acc, ids) ==
  IF i > Len(events) THEN [panic |-> FALSE, exceptions |-> acc, next |-> ids]
  ELSE IF events[i].Name = ExceptionEventName
  THEN AppendParsed(events, i, language, acc,
                    ParseEvent(events[i].Attributes, language, ids))
  ELSE ParseEvents(events, i + 1, language, acc, ids)

\* Variant: http.status_text preferred to the status message.
FallbackMessageTextFirst(status, attributes) ==
  IF Has(attributes, "http.status_text")
  THEN StringVal(attributes["http.status_text"])
  ELSE status.Message

\* message = status.Message(); ... case "http.status_text": if message == "" {...}
FallbackMessage(status, attributes) ==
  IF status.Message = "" /\ Has(attributes, "http.status_text")
  THEN StringVal(attributes["http.status_text"])
  ELSE status.Message

\* filtered = make(map); for key, value := range attributes { ... default: filtered[key] = value }
FilterAttributes(attributes) ==
  [key \in DOMAIN attributes \ {"http.status_text"} |-> attributes[key]]

\* Variant: 400 itself classified as a fault.
ClassifyAbove400(spanAttributes) ==
  IF Has(spanAttributes, "http.status_code")
  THEN LET code == IntVal(spanAttributes["http.status_code"])
       IN IF code > 400 /\ code <= 499
          THEN [isError |-> TRUE, isFault |-> FALSE, isThrottle |-> (code = 429)]
          ELSE [isError |-> FALSE, isFault |-> TRUE, isThrottle |-> FALSE]
  ELSE [isError |-> FALSE, isFault |-> TRUE, isThrottle |-> FALSE]

\* The flags set from the span's http.status_code attribute.
Classify(spanAttributes) ==
  IF Has(spanAttributes, "http.status_code")
  THEN LET code == IntVal(spanAttributes["http.status_code"])
       IN IF code >= 400 /\ code <= 499
          THEN [isError |-> TRUE, isFault |-> FALSE, isThrottle |-> (code = 429)]
          ELSE [isError |-> FALSE, isFault |-> TRUE, isThrottle |-> FALSE]
  ELSE [isError |-> FALSE, isFault |-> TRUE, isThrottle |-> FALSE]

\* What makeCause returns: the flags, the filtered map (sameMap: it is the
\* map passed in, not a new one), the cause, and `attributes` as the call
\* leaves it.
Return(flags, filtered, sameMap, cause, attributes, ids) ==
  [panic |-> FALSE, isError |-> flags.isError, isFault |-> flags.isFault,
   isThrottle |-> flags.isThrottle, filtered |-> filtered, sameMap |-> sameMap,
   cause |-> cause, attributes |-> attributes, next |-> ids]

NoFlags == [isError |-> FALSE, isFault |-> FALSE, isThrottle |-> FALSE]

\* Variant: an unset status taken for an error.
StatusIsErrorOrUnset(status) == status.Code # "STATUS_CODE_OK"

\* status.Code() == pdata.StatusCodeError
StatusIsError(status) == status.Code = StatusCodeError

\* Variant: the cause built for an empty message too.
FallbackCauseAlways(message, id) == CauseObject(<<Exception(id, "", message)>>)

\* if message != "" { cause = &awsxray.CauseData{... one exception ...} }
FallbackCause(message, id) ==
  IF message # "" THEN CauseObject(<<Exception(id, "", message)>>) ELSE CauseNil

makeCause(span, attributes, resource, ids) ==
  IF ~StatusIsError(span.Status)
  THEN Return(NoFlags, attributes, TRUE, CauseNil, attributes, ids)
  ELSE IF hasExceptions(span.Events)
  THEN LET language == StringAttr(resource, "telemetry.sdk.language")
           parsed   == ParseEvents(span.Events, 1, language, <<>>, ids)
       IN IF parsed.panic
          THEN [Return(NoFlags, attributes, TRUE, CauseNil, attributes, parsed.next)
                  EXCEPT !.panic = TRUE]
          ELSE Return(Classify(span.Attributes), attributes, TRUE,
                      CauseObject(parsed.exceptions), attributes, parsed.next)
  ELSE LET message == FallbackMessage(span.Status, attributes)
           id      == NewSegmentID(ids)
       IN Return(Classify(span.Attributes), FilterAttributes(attributes), FALSE,
                 FallbackCause(message, id), attributes,
                 IF message # "" THEN id ELSE ids)

(***************************************************************************)
(* Inputs.  A stack trace is built from at most MaxBlocks blocks of lines  *)
(* of the language's convention (well formed and malformed ones), joined   *)
(* by "\n", with or without a final "\n".                                  *)
(***************************************************************************)
JavaBlocks ==
  { <<"java.lang.E: top">>,
    <<"\tat m/a.B.c(B.java:10)">>,
    <<"\tat a.D.e(Native Method)">>,
    <<"Caused by: X: y", "\tat a.F.g(F.java:20)">>,
    <<"Caused by: Z">>,
    <<"Caused by: X:">>,
    <<"\t... 2 more", "\tat h(">> }

PhpBlocks ==
  { <<"E: top">>,
    <<"\tat a.B.c(B.php:7)">>,
    <<"Caused by: X: y", "\tat a.F.g(F.php:20)">> }

PythonBlocks ==
  { <<"Traceback (most recent call last):">>,
    <<"  File \"a.py\", line 3, in f", "    x()">>,
    <<"  File \"b.py\", line 7, in g", "    y()", "TypeError: worse">>,
    <<"ValueError: bad", "", DuringHandling, "">>,
    <<DuringHandling>>,
    <<"KeyError:", "">>,
    <<"  File ,a,b">> }

JavaScriptBlocks ==
  { <<"Error: x">>,
    <<"    at f (/a/b.js:10:5)">>,
    <<"    at /a/c.js:3:1">>,
    <<"    at native">>,
    <<"    at g (native)">>,
    <<"    at (", "    at ">> }

DotnetBlocks ==
  { <<"System.Ex: m">>,
    <<"\tat A.B() in C:\\x\\y.cs:line 12">>,
    <<"\tat A.C(String s)">>,
    <<"\tat D in f.cs:line">>,
    <<"\tat in f.cs:3">>,
    <<"\tat F in g.cs:9">> }

GoBlocks ==
  { <<"panic: x">>,
    <<"goroutine 1 [running]:">>,
    <<"main.f(0x1)", "\t/a/b.go:12 +0x1">>,
    <<"main.g()">>,
    <<"\tfoo">>,
    <<"created by main.h">> }

OtherBlocks == { <<"x">>, <<"\tat a(b:1)">> }

Languages == {"java", "php", "python", "javascript", "dotnet", "go", "ruby", ""}

Blocks(language) ==
  CASE language = "java"       -> JavaBlocks
    [] language = "php"        -> PhpBlocks
    [] language = "python"     -> PythonBlocks
    [] language = "javascript" -> JavaScriptBlocks
    [] language = "dotnet"     -> DotnetBlocks
    [] language = "go"         -> GoBlocks
    [] OTHER                   -> OtherBlocks

RECURSIVE Flatten(_)
Flatten(blocks) ==
  IF Len(blocks) = 0 THEN <<>> ELSE Head(blocks) \o Flatten(Tail(blocks))

Traces(language) ==
  { Join(Flatten(bs), "\n") \o nl :
      bs \in UNION {[1..n -> Blocks(language)] : n \in 0..MaxBlocks},
      nl \in {"", "\n"} }

EventIdentities == { <<"", "">>, <<"E", "m">> }

(***************************************************************************)
(* SpecParse: one call of parseException.                                  *)
(***************************************************************************)
InitParse ==
  /\ \E language \in Languages, tm \in EventIdentities :
       \E stacktrace \in Traces(language) :
         input = [exceptionType |-> tm[1], message |-> tm[2],
                  stacktrace |-> stacktrace, language |-> language]
  /\ output = <<>>
  /\ pc = "call"
  /\ segmentIDs = 0

ParseException ==
  /\ pc = "call"
  /\ \E sl \in {parseException(input.exceptionType, input.message,
                               input.stacktrace, input.language, segmentIDs)} :
        /\ output' = [panic |-> sl.panic,
                      exceptions |-> IF sl.panic THEN <<>> ELSE Exceptions(sl)]
        /\ pc' = IF sl.panic THEN "panic" ELSE "done"
        /\ segmentIDs' = sl.next
  /\ UNCHANGED input

NextParse == ParseException

SpecParse == InitParse /\ [][NextParse]_vars

(***************************************************************************)
(* Spec: one call of makeCause.                                            *)
(***************************************************************************)
JavaTrace == "E: top\n\tat a.B.c(B.java:10)\nCaused by: X: y\n\tat a.F.g(F.java:20)\n"

PythonTrace ==
  Join(<<"Traceback (most recent call last):",
         "  File \"a.py\", line 3, in f", "    x()", "ValueError: bad", "",
         DuringHandling, "",
         "Traceback (most recent call last):",
         "  File \"b.py\", line 7, in g", "    y()", "TypeError: worse", "">>, "\n")

Event(name, attributes) == [Name |-> name, Attributes |-> attributes]

ExceptionAttributes(type, message, stacktrace) ==
  [k \in {"exception.type", "exception.message", "exception.stacktrace"} |->
     StringValue(CASE k = "exception.type" -> type
                   [] k = "exception.message" -> message
                   [] OTHER -> stacktrace)]

EmptyMap == [k \in {} |-> StringValue("")]

EventChoices ==
  { Event(ExceptionEventName, EmptyMap),
    Event(ExceptionEventName, ExceptionAttributes("java.lang.E", "top", JavaTrace)),
    Event(ExceptionEventName, ExceptionAttributes("TypeError", "worse", PythonTrace)),
    Event("log", ExceptionAttributes("Ignored", "not an exception", JavaTrace)),
    Event(ExceptionEventName, ExceptionAttributes("E", "m", "E\nCaused by: X:")) }

StatusCodes == {"STATUS_CODE_UNSET", "STATUS_CODE_OK", StatusCodeError}

StatusMessages == {"", "boom"}

AttributeMaps ==
  { EmptyMap,
    [k \in {"http.method"} |-> StringValue("POST")],
    [k \in {"http.method", "http.status_text"} |->
       StringValue(IF k = "http.method" THEN "POST" ELSE "Not Found")],
    [k \in {"http.status_text"} |-> StringValue("")] }

SpanAttributeMaps ==
  {EmptyMap}
  \cup {[k \in {"http.status_code"} |-> IntValue(code)] :
          code \in {399, 400, 429, 499, 500}}
  \cup {[k \in {"http.status_code"} |-> StringValue("404")]}

ResourceMaps ==
  {EmptyMap}
  \cup {[k \in {"telemetry.sdk.language"} |-> StringValue(l)] : l \in {"java", "python"}}

Init ==
  /\ \E code \in StatusCodes, message \in StatusMessages,
        spanAttributes \in SpanAttributeMaps, attributes \in AttributeMaps,
        resource \in ResourceMaps,
        events \in UNION {[1..n -> EventChoices] : n \in 0..MaxEvents} :
       input = [span |-> [Status |-> [Code |-> code, Message |-> message],
                          Attributes |-> spanAttributes,
                          Events |-> events],
                attributes |-> attributes,
                resource |-> resource]
  /\ output = <<>>
  /\ pc = "call"
  /\ segmentIDs = 0

MakeCause ==
  /\ pc = "call"
  /\ \E r \in {makeCause(input.span, input.attributes, input.resource, segmentIDs)} :
        /\ output' = r
        /\ pc' = IF r.panic THEN "panic" ELSE "done"
        /\ segmentIDs' = r.next
  /\ UNCHANGED input

Next == MakeCause

Spec == Init /\ [][Next]_vars

(***************************************************************************)
(* Properties of makeCause (checked under Spec).                           *)
(***************************************************************************)
Returned == pc = "done"

ErrorSpan == input.span.Status.Code = StatusCodeError

ExceptionEvents == {i \in 1..Len(input.span.Events) :
                      input.span.Events[i].Name = ExceptionEventName}

\* The message the fallback path is specified to use.
SpecifiedFallbackMessage ==
  IF input.span.Status.Message # "" THEN input.span.Status.Message
  ELSE IF "http.status_text" \in DOMAIN input.attributes
  THEN StringVal(input.attributes["http.status_text"])
  ELSE ""

\* C1: for a span whose status code is not the error status, makeCause
\* returns all three flags false, the input attribute map itself with every
\* entry as it was, and no cause, whatever the events, attributes and
\* resource are; no identifier is generated.
C1_NotErrorShortCircuits ==
  (pc # "call" /\ ~ErrorSpan) =>
     /\ pc = "done"
     /\ ~output.isError /\ ~output.isFault /\ ~output.isThrottle
     /\ output.filtered = input.attributes
     /\ output.sameMap
     /\ output.cause = CauseNil
     /\ segmentIDs = 0

C1_Witness ==
  /\ Returned /\ ~ErrorSpan
  /\ ExceptionEvents # {}
  /\ "http.status_code" \in DOMAIN input.span.Attributes
  /\ "http.status_text" \in DOMAIN input.attributes
  /\ output.cause = CauseNil

\* C2: for an error span the flags depend only on the span's
\* http.status_code attribute: absent gives (false, true, false); a value in
\* [400, 499] gives isError and not isFault, with isThrottle exactly for 429;
\* any other value gives (false, true, false).  Exactly one of isError and
\* isFault holds and isThrottle implies isError.
C2_FlagsFromStatusCode ==
  (Returned /\ ErrorSpan) =>
     LET a == input.span.Attributes
         present == "http.status_code" \in DOMAIN a
         code == IF present /\ a["http.status_code"].Type = "INT"
                 THEN a["http.status_code"].Int ELSE 0
         client == present /\ code \in 400..499
     IN /\ output.isError = client
        /\ output.isFault = ~client
        /\ output.isThrottle = (present /\ code = 429)
        /\ output.isError # output.isFault
        /\ output.isThrottle => output.isError

C2_Witness ==
  /\ Returned /\ ErrorSpan
  /\ "http.status_code" \in DOMAIN input.span.Attributes
  /\ input.span.Attributes["http.status_code"].Int = 400
  /\ output.isError /\ ~output.isFault /\ ~output.isThrottle

\* C4: for an error span with no exception event the fallback message is the
\* status message when non-empty and otherwise the http.status_text value
\* (empty when absent); a non-empty fallback message gives a cause with
\* exactly one exception record with a freshly generated id, that message,
\* empty type, no stack frame and no cause_ref; an empty one gives no cause.
C4_FallbackException ==
  (Returned /\ ErrorSpan /\ ExceptionEvents = {}) =>
     IF SpecifiedFallbackMessage # ""
     THEN /\ output.cause.Type = "CauseTypeObject"
          /\ Len(output.cause.Exceptions) = 1
          /\ segmentIDs = 1
          /\ output.cause.Exceptions[1] =
               [ID |-> segmentIDs, Type |-> "", Message |-> SpecifiedFallbackMessage,
                Stack |-> <<>>, Cause |-> NoCause]
     ELSE output.cause = CauseNil /\ segmentIDs = 0

C4_Witness ==
  /\ Returned /\ ErrorSpan /\ ExceptionEvents = {}
  /\ input.span.Status.Message = "boom"
  /\ "http.status_text" \in DOMAIN input.attributes
  /\ Len(output.cause.Exceptions) = 1
  /\ output.cause.Exceptions[1].Message = "boom"

\* C5: for an error span the returned map is the input map itself when an
\* exception event exists; on the fallback path it is a new map from which
\* an entry is missing only if it is http.status_text and its value was
\* folded into the fallback message.  The input map is not modified.
C5_FilteredAttributes ==
  (Returned /\ ErrorSpan) =>
     /\ output.attributes = input.attributes
     /\ IF ExceptionEvents # {}
        THEN output.sameMap /\ output.filtered = input.attributes
        ELSE /\ ~output.sameMap
             /\ DOMAIN output.filtered \subseteq DOMAIN input.attributes
             /\ \A k \in DOMAIN output.filtered :
                  output.filtered[k] = input.attributes[k]
             /\ \A k \in DOMAIN input.attributes \ DOMAIN output.filtered :
                  /\ k = "http.status_text"
                  /\ input.span.Status.Message = ""

FailsOnSomeEvent ==
  \E i \in ExceptionEvents :
     ParseEvent(input.span.Events[i].Attributes,
                StringAttr(input.resource, "telemetry.sdk.language"), 0).panic

ChainHeads(X) == {p \in 1..Len(X) : p = 1 \/ X[p - 1].Cause = NoCause}

\* The j-th smallest element of a set of numbers.
Nth(S, j) == CHOOSE p \in S : Cardinality({q \in S : q < p}) = j - 1

\* The chain that starts at head p: up to the record before the next head.
ChainAt(X, p) ==
  LET later == {q \in ChainHeads(X) : q > p}
      last  == IF later = {} THEN Len(X)
               ELSE (CHOOSE q \in later : \A r \in later : q <= r) - 1
  IN SubSeq(X, p, last)

\* C8: for an error span with at least one exception event the cause's
\* exception sequence is the concatenation, in event order, of the chains
\* parseException returns for the exception events: as many chains as
\* exception events, the j-th chain starting with a record that carries the
\* j-th exception event's type and message ("" when absent) and equal to
\* what parseException gives for that event under the resource's language,
\* no cause_ref leading from one chain into the next, all ids distinct.
C8_ChainsInEventOrder ==
  (Returned /\ ErrorSpan /\ ExceptionEvents # {}) =>
     LET X        == output.cause.Exceptions
         events   == input.span.Events
         language == IF "telemetry.sdk.language" \in DOMAIN input.resource
                     THEN StringVal(input.resource["telemetry.sdk.language"])
                     ELSE ""
         attr(e, k) == IF k \in DOMAIN e.Attributes
                       THEN StringVal(e.Attributes[k]) ELSE ""
     IN /\ Cardinality(ChainHeads(X)) = Cardinality(ExceptionEvents)
        /\ X[Len(X)].Cause = NoCause
        /\ \A p, q \in 1..Len(X) : X[p].ID = X[q].ID => p = q
        /\ \A p \in 1..Len(X) :
             X[p].Cause # NoCause => (p < Len(X) /\ X[p].Cause = X[p + 1].ID)
        /\ \A j \in 1..Cardinality(ExceptionEvents) :
             LET e     == events[Nth(ExceptionEvents, j)]
                 p     == Nth(ChainHeads(X), j)
                 chain == ChainAt(X, p)
             IN /\ chain[1].Type = attr(e, "exception.type")
                /\ chain[1].Message = attr(e, "exception.message")
                /\ chain = Exceptions(parseException(attr(e, "exception.type"),
                                                     attr(e, "exception.message"),
                                                     attr(e, "exception.stacktrace"),
                                                     language, X[p].ID - 1))

C8_Witness ==
  /\ Returned /\ ErrorSpan
  /\ Cardinality(ExceptionEvents) = 2
  /\ Len(input.span.Events) = 2
  /\ Len(output.cause.Exceptions) = 4
  /\ output.cause.Exceptions[2].Cause = NoCause
  /\ output.cause.Exceptions[3].Cause = output.cause.Exceptions[4].ID

(***************************************************************************)
(* Properties of parseException and the grammars (checked under SpecParse).*)
(***************************************************************************)
Parsed == pc = "done"

IsCausedBy(line) == HasPrefix(line, "Caused by: ")

\* A "Caused by: Type: message" line: the first colon after the prefix is
\* followed by a space.
IsCausedByTypeMessage(line) ==
  /\ IsCausedBy(line)
  /\ LET rest == SubSeq(line, Len("Caused by: ") + 1, Len(line))
     IN \E c \in 1..(Len(rest) - 1) :
          /\ SubSeq(rest, c, c + 1) = ": "
          /\ \A d \in 1..(c - 1) : SubSeq(rest, d, d) # ":"

\* A first line, then only well-formed frame lines and "Caused by: Type:
\* message" lines, each of the latter directly followed by a frame line.
WellFormedJavaTrace(lines) ==
  /\ Len(lines) >= 1
  /\ \A i \in 2..Len(lines) :
       \/ JavaIsFrame(lines[i])
       \/ /\ IsCausedByTypeMessage(lines[i])
          /\ i < Len(lines)
          /\ JavaIsFrame(lines[i + 1])

CausedByLines(lines) == {i \in 2..Len(lines) : IsCausedBy(lines[i])}

\* The frame lines that follow the j-th "Caused by: " line (j = 0: that
\* precede the first one) and precede the next one; cb = CausedByLines.
FrameLinesOf(lines, cb, j) ==
  {i \in 2..Len(lines) :
     /\ Cardinality({c \in cb : c < i}) = j
     /\ JavaIsFrame(lines[i])}

\* The records X are the chain of the well-formed trace `lines`.
JavaChain(lines, cb, X, type, message) ==
  LET k == Cardinality(cb)
  IN /\ Len(X) = k + 1
     /\ X[1].Type = type /\ X[1].Message = message
     /\ \A i \in 1..k : X[i].Cause = X[i + 1].ID /\ X[i].ID # X[i + 1].ID
     /\ X[k + 1].Cause = NoCause
     /\ \A j \in 0..k :
          LET fl == FrameLinesOf(lines, cb, j)
          IN /\ Len(X[j + 1].Stack) = Cardinality(fl)
             /\ \A n \in 1..Cardinality(fl) :
                  X[j + 1].Stack[n] = JavaFrame(lines[Nth(fl, n)])
     /\ \A j \in 1..k :
          lines[Nth(cb, j)] = "Caused by: " \o X[j + 1].Type \o ": " \o X[j + 1].Message

JavaChainOfTrace(lines, result, returned, type, message) ==
  WellFormedJavaTrace(lines) =>
     (returned /\ JavaChain(lines, CausedByLines(lines), result.exceptions, type, message))

\* C3: for a java/php trace made of a first line, frame lines and k lines
\* "Caused by: Type: message", each followed by a frame line,
\* fillJavaStacktrace returns k+1 records in textual order: record i links
\* to record i+1 by cause_ref, the last has none, and every frame line is
\* in the stack of the record opened by the latest "Caused by: " line
\* before it (record 0 when there is none), in the order of the lines.
C3_JavaChain ==
  (pc # "call" /\ input.language \in {"java", "php"}) =>
     JavaChainOfTrace(ReadLines(input.stacktrace), output, pc = "done",
                      input.exceptionType, input.message)

C3_Witness ==
  /\ Parsed /\ input.language = "java"
  /\ WellFormedJavaTrace(ReadLines(input.stacktrace))
  /\ Cardinality(CausedByLines(ReadLines(input.stacktrace))) = 2
  /\ Len(output.exceptions) = 3
  /\ Len(output.exceptions[1].Stack) = 0
  /\ Len(output.exceptions[2].Stack) = 1
  /\ output.exceptions[2].Cause = output.exceptions[3].ID

\* C6: for every language key and every stack-trace text parseException
\* returns, without failing, at least one record whose first element carries
\* the event's type and message; a line whose delimiters cannot be located
\* is skipped.
C6_NeverFails ==
  /\ pc # "panic"
  /\ pc = "done" =>
       /\ Len(output.exceptions) >= 1
       /\ output.exceptions[1].Type = input.exceptionType
       /\ output.exceptions[1].Message = input.message

\* Whether a is b with some elements left out (the order kept).
RECURSIVE IsSubsequence(_, _)
IsSubsequence(a, b) ==
  IF Len(a) = 0 THEN TRUE
  ELSE IF Len(b) = 0 THEN FALSE
  ELSE IF Head(a) = Head(b) THEN IsSubsequence(Tail(a), Tail(b))
  ELSE IsSubsequence(a, Tail(b))

Reverse(q) == [i \in 1..Len(q) |-> q[Len(q) + 1 - i]]

\* The lines after the first, as the four forward grammars read them.
BodyLines(lines) == SubSeq(lines, 2, Len(lines))

Map(q, F(_)) == [i \in 1..Len(q) |-> F(q[i])]

IsJavaScriptFrameLine(line) == HasPrefix(line, "    at ")

IsDotnetFrameLine(line) ==
  /\ HasPrefix(line, "\tat ")
  /\ IF Index(line, " in ") >= 0
     THEN ~DotnetFramePanics(Split(line, " in "))
     ELSE LastIndexByte(line, ")") >= 0

DotnetFrameOf(line) ==
  IF Index(line, " in ") >= 0
  THEN DotnetFrame(Split(line, " in "))
  ELSE StackFrame("", SubSeq(line, Len("\tat ") + 1, LastIndexByte(line, ")") + 1), 0)

IsPythonFrameLine(line) ==
  /\ HasPrefix(line, "  File ")
  /\ Len(Split(line, ",")) = 3
  /\ Len(Split(line, ",")[1]) >= 9

PythonFrameOf(line) == PythonFrame(Split(line, ","))

\* What identifies the frame lines of the trace text, in the order of the
\* text: the frames they give (for go, the label lines; a read past the end
\* of the text gives the empty label last).
TextFrames(language, stacktrace) ==
  CASE language \in {"java", "php"} ->
         Map(SelectSeq(BodyLines(ReadLines(stacktrace)), JavaIsFrame), JavaFrame)
    [] language = "javascript" ->
         Map(SelectSeq(BodyLines(ReadLines(stacktrace)), IsJavaScriptFrameLine),
             JavaScriptFrame)
    [] language = "dotnet" ->
         Map(SelectSeq(BodyLines(ReadLines(stacktrace)), IsDotnetFrameLine),
             DotnetFrameOf)
    [] language = "python" ->
         Map(SelectSeq(Split(stacktrace, "\n"), IsPythonFrameLine), PythonFrameOf)
    [] language = "go" -> BodyLines(ReadLines(stacktrace)) \o <<"">>
    [] OTHER -> <<>>

FrameLabel(f) == f.Label

\* What identifies the frames of a record's stack, in the order of the stack.
StackFrames(language, e) ==
  IF language = "go" THEN Map(e.Stack, FrameLabel) ELSE e.Stack

\* Every record's stack keeps the order of `frames`.
StacksFollow(language, X, frames) ==
  \A p \in 1..Len(X) : IsSubsequence(StackFrames(language, X[p]), frames)

\* C9 (as stated): for each of the five grammars and every record produced,
\* the frames of the stack are in the order of their frame lines in the text.
C9_StackInTextOrder ==
  Parsed =>
     StacksFollow(input.language, output.exceptions,
                  TextFrames(input.language, input.stacktrace))

\* C9 (amended): for java, php, javascript, dotnet and go the frames of
\* every record's stack are in the order of their frame lines in the text;
\* for python, whose text is scanned from the bottom, they are in the
\* reverse of that order.
C9_StackInScanOrder ==
  Parsed =>
     StacksFollow(input.language, output.exceptions,
                  IF input.language = "python"
                  THEN Reverse(TextFrames(input.language, input.stacktrace))
                  ELSE TextFrames(input.language, input.stacktrace))

C9_Witness ==
  /\ Parsed /\ input.language = "python"
  /\ Len(output.exceptions) = 1
  /\ Len(output.exceptions[1].Stack) = 2
  /\ output.exceptions[1].Stack[1].Path = "b.py"
  /\ output.exceptions[1].Stack[2].Path = "a.py"
  /\ Len(TextFrames(input.language, input.stacktrace)) = 2
  /\ TextFrames(input.language, input.stacktrace)[1].Path = "a.py"

\* In the Go slice `lines` of fillPythonStacktrace, the 0-based index of the
\* first sentinel line the scan meets (-1: none).
SentinelIdx(lines) ==
  LET c == {i \in 0..(Len(lines) - 2) : HasPrefix(lines[i + 1], DuringHandling)}
  IN IF c = {} THEN -1 ELSE CHOOSE i \in c : \A j \in c : j <= i

\* The 0-based index of the nearest "  File " line before line s (-1: none).
FileIdx(lines, s) ==
  LET c == {i \in 0..(s - 1) : HasPrefix(lines[i + 1], "  File ")}
  IN IF c = {} THEN -1 ELSE CHOOSE i \in c : \A j \in c : j <= i

\* The lines with 0-based indexes lo..hi joined by "\n".
JoinedLines(lines, lo, hi) ==
  Join([i \in 1..(hi - lo + 1) |-> lines[lo + i]], "\n")

\* The first colon of text (1-based), 0 when there is none.
FirstColon(text) ==
  LET c == {i \in 1..Len(text) : SubSeq(text, i, i) = ":"}
  IN IF c = {} THEN 0 ELSE CHOOSE i \in c : \A j \in c : i <= j

\* What the sentinel step at line s, with the frame marker at line f, does
\* when the new exception's type+message is `text`: no new record without a
\* colon; otherwise a second record with the type before the colon and the
\* message from two characters after it, a fresh id that the first record's
\* cause_ref holds, the first record's stack made of the frame lines below
\* the sentinel only, and the located frame the first of the new record's
\* stack.
SentinelStep(lines, s, f, X, text) ==
  LET c == FirstColon(text)
      below == {i \in (s + 1)..(Len(lines) - 2) : IsPythonFrameLine(lines[i + 1])}
  IN IF c = 0 THEN Len(X) = 1
     ELSE /\ Len(X) >= 2
          /\ X[2].Type = SubSeq(text, 1, c - 1)
          /\ X[2].Message = SubSeq(text, c + 2, Len(text))
          /\ X[2].ID # X[1].ID
          /\ X[1].Cause = X[2].ID
          /\ Len(X[1].Stack) = Cardinality(below)
          /\ IsPythonFrameLine(lines[f + 1]) =>
               /\ Len(X[2].Stack) >= 1
               /\ X[2].Stack[1] = PythonFrameOf(lines[f + 1])

StrictlyBetween(lines, X) ==
  LET s == SentinelIdx(lines)
      f == FileIdx(lines, s)
  IN (s >= 0 /\ f >= 0) =>
        SentinelStep(lines, s, f, X, JoinedLines(lines, f + 1, s - 1))

TwoInside(lines, X) ==
  LET s == SentinelIdx(lines)
      f == FileIdx(lines, s)
  IN s >= 0 =>
        IF f < 0 THEN Len(X) = 1
        ELSE /\ s - f >= 3
             /\ SentinelStep(lines, s, f, X, JoinedLines(lines, f + 2, s - 2))

\* C10 (as stated): at the sentinel line fillPythonStacktrace takes the
\* lines strictly between the nearest earlier "  File " line and the
\* sentinel line as the new exception's type+message, appends the new
\* record, links it and resumes at the located frame line.
C10_JoinsLinesStrictlyBetween ==
  (Parsed /\ input.language = "python") =>
     StrictlyBetween(Split(input.stacktrace, "\n"), output.exceptions)

\* C10 (amended): at the sentinel line s, with the nearest earlier "  File "
\* line f, a call that returns has taken the lines f+2 .. s-2 (it leaves out
\* the line after the frame marker and the line before the sentinel) as the
\* type+message; without a "  File " line before s, or without a colon in
\* that text, it returns the records it has; otherwise it appends the new
\* record, links it and resumes at line f.
C10_JoinsLinesTwoInside ==
  (Parsed /\ input.language = "python") =>
     TwoInside(Split(input.stacktrace, "\n"), output.exceptions)

C10_Witness ==
  /\ Parsed /\ input.language = "python"
  /\ Len(output.exceptions) = 2
  /\ output.exceptions[2].Type = "ValueError"
  /\ output.exceptions[2].Message = "bad"
  /\ output.exceptions[1].Cause = output.exceptions[2].ID
  /\ Len(output.exceptions[1].Stack) = 1
  /\ Len(output.exceptions[2].Stack) = 1

====
